---- MODULE Spec2Model ----
(***************************************************************************)
(* Model of data/process_data.py: the load -> clean -> save pipeline of    *)
(* the disaster-response ETL script.                                        *)
(*                                                                          *)
(* A string that the program takes apart (the packed categories value) is   *)
(* a sequence of one-character strings; a string that is only compared (a   *)
(* column name, a message text) is a TLA+ string.  A table (DataFrame) is a *)
(* record [columns, rows]; a row is [idx, cells] where idx is the pandas    *)
(* index label and cells follow the order of columns.                       *)
(***************************************************************************)
EXTENDS Integers, Sequences, FiniteSets, TLC

(* ------------------------------ bounds --------------------------------- *)

MaxMsgRows == 2

MaxCatRows == 2

(* ------------------------------ inputs --------------------------------- *)

\* rows a messages file is made of: <<id, message>>
MessageRows == {<<1, "flood">>, <<2, "fire">>}

\* ids a categories file refers to
Ids == {1, 2}

\* numbers of command-line arguments the script is started with
Argcs == {2, 3, 4}

Related == <<"r","e","l","a","t","e","d">>

Request == <<"r","e","q","u","e","s","t">>

Offer == <<"o","f","f","e","r">>

\* "related-1;request-0"
PackedA == Related \o <<"-","1",";">> \o Request \o <<"-","0">>

\* "related-2;request-0"
PackedB == Related \o <<"-","2",";">> \o Request \o <<"-","0">>

\* "related-1;request-0;offer-2"
PackedC == Related \o <<"-","1",";">> \o Request \o <<"-","0",";">> \o Offer \o <<"-","2">>

\* "offer-3;related-1"
PackedD == Offer \o <<"-","3",";">> \o Related \o <<"-","1">>

PackedStrings == {PackedA, PackedB, PackedC, PackedD}

SeqsUpTo(S, n) == UNION {[1..k -> S] : k \in 0..n}

\* contents of the messages file below its header row "id,message"
MessageFiles == SeqsUpTo(MessageRows, MaxMsgRows)

\* contents of the categories file below its header row "id,categories"
CategoryFiles == SeqsUpTo(Ids \X PackedStrings, MaxCatRows)

(* ------------------------------ tables --------------------------------- *)

NoDF == [columns |-> <<>>, rows |-> <<>>]

Range(s) == {s[i] : i \in 1..Len(s)}

\* positions of the columns called name
ColumnsNamed(df, name) == {k \in 1..Len(df.columns) : df.columns[k] = name}

ColumnOf(df, name) == CHOOSE k \in ColumnsNamed(df, name) : TRUE

\* the cells of a row at the positions keep, in order
RECURSIVE CellsAt(_, _, _)
CellsAt(cells, keep, k) ==
    IF k > Len(cells) THEN <<>>
    ELSE (IF k \in keep THEN <<cells[k]>> ELSE <<>>) \o CellsAt(cells, keep, k + 1)

\* pd.read_csv: the rows of the file under a RangeIndex
read_csv(file, header) ==
    [columns |-> header,
     rows    |-> [i \in 1..Len(file) |-> [idx |-> i - 1, cells |-> file[i]]]]

RangeIndex(cellRows) == [i \in 1..Len(cellRows) |-> [idx |-> i - 1, cells |-> cellRows[i]]]

\* MatchRows that stops at the first matching right row (a lookup, not a join)
RECURSIVE MatchRows_first_only(_, _, _, _, _)
MatchRows_first_only(lcells, lk, right, rk, j) ==
    IF j > Len(right.rows) THEN <<>>
    ELSE LET rcells == right.rows[j].cells
         IN  IF rcells[rk] = lcells[lk]
                THEN <<lcells \o CellsAt(rcells, (1..Len(rcells)) \ {rk}, 1)>>
                ELSE MatchRows_first_only(lcells, lk, right, rk, j + 1)

\* the right rows that match one left row on the key, as joined cell rows
RECURSIVE MatchRows(_, _, _, _, _)
MatchRows(lcells, lk, right, rk, j) ==
    IF j > Len(right.rows) THEN <<>>
    ELSE LET rcells == right.rows[j].cells
         IN  (IF rcells[rk] = lcells[lk]
                 THEN <<lcells \o CellsAt(rcells, (1..Len(rcells)) \ {rk}, 1)>>
                 ELSE <<>>)
             \o MatchRows(lcells, lk, right, rk, j + 1)

RECURSIVE MergeRows(_, _, _, _, _)
MergeRows(left, lk, right, rk, i) ==
    IF i > Len(left.rows) THEN <<>>
    ELSE MatchRows(left.rows[i].cells, lk, right, rk, 1)
         \o MergeRows(left, lk, right, rk, i + 1)

\* pd.merge(left, right, on=[key], how="inner"): every pair of a left and a right
\* row with the same key, in the order of the left keys and, under one left row,
\* in the order of the right rows
merge(left, right, key) ==
    LET lk == ColumnOf(left, key)
        rk == ColumnOf(right, key)
    IN  [columns |-> left.columns
                     \o CellsAt(right.columns, (1..Len(right.columns)) \ {rk}, 1),
         rows    |-> RangeIndex(MergeRows(left, lk, right, rk, 1))]

load_data(messages_file, categories_file) ==
    LET messages   == read_csv(messages_file, <<"id", "message">>)
        categories == read_csv(categories_file, <<"id", "categories">>)
    IN  merge(messages, categories, "id")

(* ----------------------------- clean_data ------------------------------ *)

\* Python str.split(sep): the pieces between the separators, empty pieces kept
RECURSIVE StrSplit(_, _)
StrSplit(s, sep) ==
    IF \A i \in 1..Len(s) : s[i] # sep THEN <<s>>
    ELSE LET i == CHOOSE i \in 1..Len(s) :
                     s[i] = sep /\ \A j \in 1..(i - 1) : s[j] # sep
         IN  <<SubSeq(s, 1, i - 1)>> \o StrSplit(SubSeq(s, i + 1, Len(s)), sep)

\* a sequence of characters as a string
RECURSIVE StrJoin(_)
StrJoin(cs) == IF cs = <<>> THEN "" ELSE Head(cs) \o StrJoin(Tail(cs))

\* the cell pandas gives a row that has fewer pieces than the widest row
NoneTok == <<"None">>

Max(S) == CHOOSE m \in S : \A n \in S : n <= m

\* SplitExpand that pads short rows with "0" instead of a missing value
SplitExpand_fill(strings) ==
    LET pieces == [i \in 1..Len(strings) |-> StrSplit(strings[i], ";")]
        width  == IF strings = <<>> THEN 0
                  ELSE Max({Len(pieces[i]) : i \in 1..Len(strings)})
    IN  [i \in 1..Len(strings) |->
            [k \in 1..width |-> IF k <= Len(pieces[i]) THEN pieces[i][k] ELSE <<"0">>]]

\* Series.str.split(";", expand=True): one column per piece, short rows padded
SplitExpand(strings) ==
    LET pieces == [i \in 1..Len(strings) |-> StrSplit(strings[i], ";")]
        width  == IF strings = <<>> THEN 0
                  ELSE Max({Len(pieces[i]) : i \in 1..Len(strings)})
    IN  [i \in 1..Len(strings) |->
            [k \in 1..width |-> IF k <= Len(pieces[i]) THEN pieces[i][k] ELSE NoneTok]]

Digits == <<"0","1","2","3","4","5","6","7","8","9">>

IsDigit(c) == \E d \in 1..10 : Digits[d] = c

\* int(c) for a digit
DigitValue(c) == (CHOOSE d \in 1..10 : Digits[d] = c) - 1

\* .str[-1].astype(int) succeeds on this cell
HasIntSuffix(tok) == tok # NoneTok /\ tok # <<>> /\ IsDigit(tok[Len(tok)])

\* Binary without the remap
Binary_unmapped(x) == x

\* make all columns binary: lambda x: 1 if x == 2 else x
Binary(x) == IF x = 2 THEN 1 ELSE x

\* .str[-1].astype(int) followed by the map
CategoryValue(tok) == Binary(DigitValue(tok[Len(tok)]))

\* category_colnames that keeps the whole token as the name
category_colnames_whole_token(row) == [k \in 1..Len(row) |-> StrJoin(row[k])]

\* [c.split("-")[0] for c in row]
category_colnames(row) == [k \in 1..Len(row) |-> StrJoin(StrSplit(row[k], "-")[1])]

\* drop_duplicates(keep="last"): a row stays unless a later row has its cells
RECURSIVE drop_duplicates_keep_last(_, _)
drop_duplicates_keep_last(rows, i) ==
    IF i > Len(rows) THEN <<>>
    ELSE (IF \E j \in (i + 1)..Len(rows) : rows[j].cells = rows[i].cells
             THEN <<>> ELSE <<rows[i]>>)
         \o drop_duplicates_keep_last(rows, i + 1)

\* DataFrame.drop_duplicates(): a row stays unless an earlier row has its cells
RECURSIVE drop_duplicates(_, _)
drop_duplicates(rows, i) ==
    IF i > Len(rows) THEN <<>>
    ELSE (IF \E j \in 1..(i - 1) : rows[j].cells = rows[i].cells
             THEN <<>> ELSE <<rows[i]>>)
         \o drop_duplicates(rows, i + 1)

Raise(e) == [err |-> e, df |-> NoDF]

Return(df) == [err |-> "", df |-> df]

\* lines 28-46: split the packed column, name and convert the pieces, put them
\* in the place of the packed column
\*   KeyError        no column 'categories' (line 28), no index label 0 (line 31)
\*   AttributeError  row 0 has a missing piece, so c.split fails (line 32); two
\*                   pieces of row 0 give the same name, so categories[column]
\*                   is a DataFrame without .str (line 37)
\*   ValueError      a piece is missing, empty or does not end in a digit, so
\*                   astype(int) fails (line 37)
\* Category names are taken not to collide with the other column names.
expand_categories(df) ==
    IF ColumnsNamed(df, "categories") = {} THEN Raise("KeyError")
    ELSE
    LET c          == ColumnOf(df, "categories")
        n          == Len(df.rows)
        categories == SplitExpand([i \in 1..n |-> df.rows[i].cells[c]])
        zero       == {i \in 1..n : df.rows[i].idx = 0}
    IN
    IF zero = {} THEN Raise("KeyError")
    ELSE
    LET row == categories[CHOOSE i \in zero : TRUE]
    IN
    IF \E k \in 1..Len(row) : row[k] = NoneTok THEN Raise("AttributeError")
    ELSE
    LET names == category_colnames(row)
    IN
    IF \E k, l \in 1..Len(names) : k # l /\ names[k] = names[l]
        THEN Raise("AttributeError")
    ELSE IF \E i \in 1..n : \E k \in 1..Len(names) : ~HasIntSuffix(categories[i][k])
        THEN Raise("ValueError")
    ELSE
    LET keep   == (1..Len(df.columns)) \ ColumnsNamed(df, "categories")
        values == [i \in 1..n |-> [k \in 1..Len(names) |-> CategoryValue(categories[i][k])]]
        concat == [columns |-> CellsAt(df.columns, keep, 1) \o names,
                   rows    |-> [i \in 1..n |->
                                  [idx   |-> df.rows[i].idx,
                                   cells |-> CellsAt(df.rows[i].cells, keep, 1)
                                             \o values[i]]]]
    IN  Return(concat)

\* clean_data that drops the duplicates of the joined table before it converts
clean_data_dedupe_first(df) ==
    expand_categories([columns |-> df.columns, rows |-> drop_duplicates(df.rows, 1)])

\* clean_data that accepts a table without the packed column and then drops the
\* rows that repeat an id
clean_data_lenient(df) ==
    IF ColumnsNamed(df, "categories") = {}
        THEN Return([columns |-> df.columns,
                     rows    |-> SelectSeq(df.rows, LAMBDA r :
                                    ~\E q \in Range(df.rows) :
                                        q.idx < r.idx /\ q.cells[1] = r.cells[1])])
    ELSE LET r == expand_categories(df)
         IN  IF r.err # "" THEN r
             ELSE Return([columns |-> r.df.columns,
                          rows    |-> drop_duplicates(r.df.rows, 1)])

clean_data(df) ==
    LET r == expand_categories(df)
    IN  IF r.err # "" THEN r
        ELSE Return([columns |-> r.df.columns,
                     rows    |-> drop_duplicates(r.df.rows, 1)])

(* ------------------------------ save_data ------------------------------ *)

NoTable == [exists |-> FALSE, columns |-> <<>>, rows |-> <<>>]

\* save_data with if_exists="append"
save_data_append(df, database) ==
    [exists  |-> TRUE,
     columns |-> IF database.exists THEN database.columns ELSE df.columns,
     rows    |-> database.rows \o [i \in 1..Len(df.rows) |-> df.rows[i].cells]]

\* df.to_sql("DisasterResponse", engine, index=False, if_exists="replace")
save_data(df, database) ==
    [exists  |-> TRUE,
     columns |-> df.columns,
     rows    |-> [i \in 1..Len(df.rows) |-> df.rows[i].cells]]

\* a table left in the store by an earlier run on other files
EarlierTable ==
    [exists  |-> TRUE,
     columns |-> <<"id", "message", "water">>,
     rows    |-> << <<7, "storm", 1>>, <<8, "quake", 0>> >>]

(* -------------------------------- main --------------------------------- *)

VARIABLES
    messages,     \* rows of the messages file
    categories,   \* rows of the categories file
    store,        \* table DisasterResponse of the database file
    argc,         \* number of command-line arguments, len(sys.argv) - 1
    pc,           \* position of main: "start", "load", "clean", "save", "done", "failed"
    df,           \* main's local df
    arg,          \* the table the last clean_data call was given
    err,          \* the exception that ended the run, "" if none
    out,          \* lines printed by this run
    calls,        \* functions called by this run, in order
    store0        \* the store as this run found it

vars == <<messages, categories, store, argc, pc, df, arg, err, out, calls, store0>>

MsgLoading == "Loading data..."

MsgCleaning == "Cleaning data..."

MsgSaving == "Saving data..."

MsgSaved == "Cleaned data saved to database!"

MsgUsage == "Please provide the filepaths of the messages and categories datasets"

Init ==
    /\ messages \in MessageFiles
    /\ categories \in CategoryFiles
    /\ store \in {NoTable, EarlierTable}
    /\ argc \in Argcs
    /\ pc = "start"
    /\ df = NoDF
    /\ arg = NoDF
    /\ err = ""
    /\ out = <<>>
    /\ calls = <<>>
    /\ store0 = store

\* the argument check with >= in the place of ==
ArgsOk_at_least(n) == n >= 3

\* len(sys.argv) == 4: the script name and three arguments
ArgsOk(n) == n = 3

\* if len(sys.argv) == 4: ... else: print usage
main_args ==
    /\ pc = "start"
    /\ \/ /\ ArgsOk(argc)
          /\ out' = Append(out, MsgLoading)
          /\ pc' = "load"
       \/ /\ ~ArgsOk(argc)
          /\ out' = Append(out, MsgUsage)
          /\ pc' = "done"
    /\ UNCHANGED <<messages, categories, store, argc, df, arg, err, calls, store0>>

\* df = load_data(...); print('Cleaning data...')
main_load ==
    /\ pc = "load"
    /\ calls' = Append(calls, "load_data")
    /\ \/ /\ df' = load_data(messages, categories)
          /\ out' = Append(out, MsgCleaning)
          /\ pc' = "clean"
          /\ UNCHANGED err
       \/ \* read_csv raises: a file is unreadable
          /\ err' = "FileNotFoundError"
          /\ pc' = "failed"
          /\ UNCHANGED <<df, out>>
    /\ UNCHANGED <<messages, categories, store, argc, arg, store0>>

\* df = clean_data(df); print('Saving data...')
main_clean ==
    /\ pc = "clean"
    /\ calls' = Append(calls, "clean_data")
    /\ arg' = df
    /\ LET r == clean_data(df)
       IN  \/ /\ r.err = ""
              /\ df' = r.df
              /\ out' = Append(out, MsgSaving)
              /\ pc' = "save"
              /\ UNCHANGED err
           \/ /\ r.err # ""
              /\ err' = r.err
              /\ pc' = "failed"
              /\ UNCHANGED <<df, out>>
    /\ UNCHANGED <<messages, categories, store, argc, store0>>

\* main_save placed before the clean_data call as well
main_save_early ==
    /\ pc \in {"clean", "save"}
    /\ calls' = Append(calls, "save_data")
    /\ store' = save_data(df, store)
    /\ out' = Append(out, MsgSaved)
    /\ pc' = "done"
    /\ UNCHANGED <<messages, categories, argc, df, arg, err, store0>>

\* save_data(df, database_filepath); print('Cleaned data saved to database!')
main_save ==
    /\ pc = "save"
    /\ calls' = Append(calls, "save_data")
    /\ \/ /\ store' = save_data(df, store)
          /\ out' = Append(out, MsgSaved)
          /\ pc' = "done"
          /\ UNCHANGED err
       \/ \* the database location is unwritable
          /\ err' = "OperationalError"
          /\ pc' = "failed"
          /\ UNCHANGED <<store, out>>
    /\ UNCHANGED <<messages, categories, argc, df, arg, store0>>

\* the script is run again on the same files
run_again ==
    /\ pc \in {"done", "failed"}
    /\ argc' \in Argcs
    /\ pc' = "start"
    /\ df' = NoDF
    /\ arg' = NoDF
    /\ err' = ""
    /\ out' = <<>>
    /\ calls' = <<>>
    /\ store0' = store
    /\ UNCHANGED <<messages, categories, store>>

Next == main_args \/ main_load \/ main_clean \/ main_save \/ run_again

Spec == Init /\ [][Next]_vars

(* ------------------- clean_data called as a function ------------------- *)

\* clean_data applied to whatever table the caller holds: the joined table,
\* or the table an earlier clean_data call returned.  pc names the function
\* called last, err the exception it raised.

call_load_data ==
    /\ df' = load_data(messages, categories)
    /\ pc' = "load_data"
    /\ err' = ""
    /\ UNCHANGED <<messages, categories, store, argc, arg, out, calls, store0>>

call_clean_data ==
    /\ pc # "start"
    /\ arg' = df
    /\ pc' = "clean_data"
    /\ LET r == clean_data(df)
       IN  \/ /\ r.err = ""
              /\ df' = r.df
              /\ err' = ""
           \/ /\ r.err # ""
              /\ err' = r.err
              /\ UNCHANGED df
    /\ UNCHANGED <<messages, categories, store, argc, out, calls, store0>>

InitClean ==
    /\ messages \in MessageFiles
    /\ categories \in CategoryFiles
    /\ store = NoTable
    /\ argc = 3
    /\ pc = "start"
    /\ df = NoDF
    /\ arg = NoDF
    /\ err = ""
    /\ out = <<>>
    /\ calls = <<>>
    /\ store0 = store

NextClean == call_load_data \/ call_clean_data

SpecClean == InitClean /\ [][NextClean]_vars

(* ------------------------------ properties ----------------------------- *)

Pipeline == <<"load_data", "clean_data", "save_data">>

\* load_data has returned and df is still the joined table
Loaded == pc = "clean"

\* this run's clean_data call has returned: arg is what it was given, df what
\* it returned
CleanReturned == Len(calls) >= 2 /\ ~(pc = "failed" /\ Len(calls) = 2)

\* this run's clean_data call has raised
CleanRaised == pc = "failed" /\ Len(calls) = 2

\* this run's save_data call has returned
Saved == pc = "done" /\ Len(calls) = 3

TableOf(d) ==
    [exists  |-> TRUE,
     columns |-> d.columns,
     rows    |-> [i \in 1..Len(d.rows) |-> d.rows[i].cells]]

TableEq(a, b) == a.exists = b.exists /\ a.columns = b.columns /\ a.rows = b.rows

MsgIds == {messages[i][1] : i \in 1..Len(messages)}

CatIds == {categories[i][1] : i \in 1..Len(categories)}

Count(file, id) == Cardinality({i \in 1..Len(file) : file[i][1] = id})

RECURSIVE SumOfProducts(_)
SumOfProducts(S) ==
    IF S = {} THEN 0
    ELSE LET x == CHOOSE x \in S : TRUE
         IN  Count(messages, x) * Count(categories, x) + SumOfProducts(S \ {x})

DfIds == {df.rows[i].cells[1] : i \in 1..Len(df.rows)}

\* the packed value of a row of the table clean_data was given
PackedOf(r) == r.cells[ColumnOf(arg, "categories")]

\* the other cells of that row
OthersOf(r) == CellsAt(r.cells, (1..Len(arg.columns)) \ ColumnsNamed(arg, "categories"), 1)

NumOthers == Len(arg.columns) - Cardinality(ColumnsNamed(arg, "categories"))

\* the row of the table clean_data was given that has index label i
ArgRow(i) == CHOOSE r \in Range(arg.rows) : r.idx = i

\* number of ';'-separated tokens of a packed value
TokenCount(s) == Cardinality({i \in 1..Len(s) : s[i] = ";"}) + 1

\* the integer the last character of token k of a packed value stands for
Suffix(s, k) == LET t == StrSplit(s, ";")[k] IN DigitValue(t[Len(t)])

Remapped(v) == IF v = 2 THEN 1 ELSE v

\* the part of a token before its first '-'
Prefix(t) ==
    LET dashes == {i \in 1..Len(t) : t[i] = "-"}
    IN  IF dashes = {} THEN t
        ELSE SubSeq(t, 1, (CHOOSE i \in dashes : \A j \in dashes : i <= j) - 1)

OutIdx == {df.rows[i].idx : i \in 1..Len(df.rows)}

\* two joined rows that clean_data turns into equal rows
SameCleaned(r1, r2) ==
    /\ OthersOf(r1) = OthersOf(r2)
    /\ TokenCount(PackedOf(r1)) = TokenCount(PackedOf(r2))
    /\ \A k \in 1..TokenCount(PackedOf(r1)) :
          Remapped(Suffix(PackedOf(r1), k)) = Remapped(Suffix(PackedOf(r2), k))

\* C1 as stated: the joined table has as many rows as there are distinct ids
\* present in both inputs, and no id that is absent from either input.
C1_Original ==
    Loaded => /\ Len(df.rows) = Cardinality(MsgIds \cap CatIds)
              /\ DfIds \subseteq MsgIds \cap CatIds

\* C1 amended: the joined table has, for every id present in both inputs, one
\* row per pair of a messages row and a categories row with that id (so its row
\* count is the sum over the common ids of the products of their multiplicities,
\* which is the number of common ids when ids are unique in each input), and its
\* ids are exactly the ids present in both inputs.
C1_JoinRowCount ==
    Loaded => /\ Len(df.rows) = SumOfProducts(MsgIds \cap CatIds)
              /\ DfIds = MsgIds \cap CatIds
              /\ ( /\ \A x \in MsgIds : Count(messages, x) = 1
                   /\ \A x \in CatIds : Count(categories, x) = 1 )
                 => Len(df.rows) = Cardinality(MsgIds \cap CatIds)

C1_Witness ==
    /\ Loaded
    /\ \E x \in MsgIds \cap CatIds : Count(messages, x) * Count(categories, x) > 1
    /\ MsgIds # CatIds
    /\ Len(df.rows) > Cardinality(MsgIds \cap CatIds)

FirstOfIdentical(i) ==
    /\ \E j \in (i + 1)..Len(arg.rows) : arg.rows[j].cells = arg.rows[i].cells
    /\ \A j \in 1..(i - 1) : arg.rows[j].cells # arg.rows[i].cells

\* C3 as stated: of two or more fully identical joined rows exactly one, the
\* first occurrence, is in the cleaned table.
C3_Original ==
    CleanReturned =>
        \A i \in 1..Len(arg.rows) :
            FirstOfIdentical(i) => arg.rows[i].idx \in OutIdx

\* C3 amended: the cleaned table has no two rows equal in all columns and keeps
\* the input order; a joined row is in it exactly if no earlier joined row is
\* equal to it after cleaning.  So of two or more fully identical joined rows at
\* most one is in the output, and only the first occurrence can be.
C3_NoDuplicates ==
    CleanReturned =>
        /\ \A i, j \in 1..Len(df.rows) : i < j => df.rows[i].cells # df.rows[j].cells
        /\ \A i, j \in 1..Len(df.rows) : i < j => df.rows[i].idx < df.rows[j].idx
        /\ \A j \in 1..Len(arg.rows) :
              arg.rows[j].idx \in OutIdx
                  <=> ~\E i \in 1..(j - 1) : SameCleaned(arg.rows[i], arg.rows[j])
        /\ \A i, j \in 1..Len(arg.rows) :
              (i < j /\ arg.rows[i].cells = arg.rows[j].cells)
                  => arg.rows[j].idx \notin OutIdx

C3_Witness ==
    /\ CleanReturned
    /\ Len(df.rows) >= 2
    /\ \E i \in 1..Len(arg.rows) : FirstOfIdentical(i) /\ arg.rows[i].idx \in OutIdx

\* C4: once save_data has returned, the stored table has exactly the columns and
\* rows of the table it was given, whatever the store held before; nothing else
\* writes the store.
C4_ReplaceSemantics ==
    /\ Saved => TableEq(store, TableOf(df))
    /\ ~Saved => TableEq(store, store0)

C4_Witness ==
    /\ Saved
    /\ store0.exists
    /\ store0.columns # store.columns
    /\ Len(store.rows) >= 1

\* C5: started with a number of arguments other than 3, main prints the usage
\* message and returns: no function is called and the store is as it was.
C5_UsageOnly ==
    argc # 3 =>
        /\ pc \in {"start", "done"}
        /\ calls = <<>>
        /\ df = NoDF
        /\ TableEq(store, store0)
        /\ pc = "done" => out = <<MsgUsage>>

C5_Witness ==
    /\ argc # 3
    /\ pc = "done"
    /\ out = <<MsgUsage>>
    /\ store.exists

E2EMessages == << <<1, "flood">> >>

E2ECategories == << <<1, PackedA>> >>

\* C6: the cleaned table's columns are the other columns of the joined table
\* followed by the prefixes of row 0's tokens, in order; the other cells of every
\* row are unchanged and the rows keep their order.  The files
\* [{id:1, message:'flood'}] and [{id:1, categories:'related-1;request-0'}]
\* leave the single stored row {id:1, message:'flood', related:1, request:0}.
C6_ColumnsFromRowZero ==
    /\ CleanReturned =>
          LET p0 == StrSplit(PackedOf(ArgRow(0)), ";")
          IN  /\ Len(df.columns) = NumOthers + Len(p0)
              /\ SubSeq(df.columns, 1, NumOthers) = OthersOf([cells |-> arg.columns])
              /\ \A k \in 1..Len(p0) : df.columns[NumOthers + k] = StrJoin(Prefix(p0[k]))
              /\ \A i \in 1..Len(df.rows) :
                    SubSeq(df.rows[i].cells, 1, NumOthers) = OthersOf(ArgRow(df.rows[i].idx))
              /\ \A i, j \in 1..Len(df.rows) : i < j => df.rows[i].idx < df.rows[j].idx
    /\ (Saved /\ messages = E2EMessages /\ categories = E2ECategories) =>
          /\ store.exists
          /\ store.columns = <<"id", "message", "related", "request">>
          /\ store.rows = << <<1, "flood", 1, 0>> >>

C6_Witness ==
    /\ Saved
    /\ messages = E2EMessages
    /\ categories = E2ECategories
    /\ store.columns = <<"id", "message", "related", "request">>
    /\ Len(store.rows) = 1

\* C7: clean_data given a table without a 'categories' column raises or returns
\* the table unchanged; it never returns a different table.
C7_NoCategoriesColumn ==
    (pc = "clean_data" /\ ColumnsNamed(arg, "categories") = {}) =>
        \/ err # ""
        \/ (df.columns = arg.columns /\ df.rows = arg.rows)

C7_Witness ==
    /\ pc = "clean_data"
    /\ ColumnsNamed(arg, "categories") = {}
    /\ Len(arg.rows) >= 2
    /\ err = "KeyError"
    /\ df = arg

IsPrefix(s, t) == Len(s) <= Len(t) /\ SubSeq(t, 1, Len(s)) = s

\* C8: a run with 3 arguments calls load_data, clean_data, save_data in this
\* order, each at most once; the store is written only by save_data, after
\* load_data and clean_data have returned, so a run that load_data or clean_data
\* ends leaves the store as it was; the completion message is printed only after
\* save_data has returned.
C8_StageOrder ==
    /\ IsPrefix(calls, Pipeline)
    /\ IsPrefix(out, <<MsgLoading, MsgCleaning, MsgSaving, MsgSaved>>) \/ out = <<MsgUsage>>
    /\ ~TableEq(store, store0) => Saved
    /\ (pc = "failed" /\ Len(calls) <= 2) => (err # "" /\ TableEq(store, store0))
    /\ MsgSaved \in Range(out) => (Saved /\ TableEq(store, TableOf(df)))
    /\ Len(calls) = 3 => Len(out) >= 3

C8_Witness ==
    /\ pc = "failed"
    /\ calls = <<"load_data", "clean_data">>
    /\ store.exists
    /\ out = <<MsgLoading, MsgCleaning>>

\* some row of the table clean_data was given has another number of tokens than
\* row 0
TokenCountMismatch ==
    \E i \in 1..Len(arg.rows) :
        TokenCount(PackedOf(arg.rows[i])) # TokenCount(PackedOf(ArgRow(0)))

\* C9: when a row's packed value has more or fewer tokens than row 0's,
\* clean_data raises; it returns no table.
C9_TokenCountMismatchRaises ==
    /\ CleanReturned => ~TokenCountMismatch
    /\ (Len(calls) >= 2 /\ TokenCountMismatch) =>
          (CleanRaised /\ err \in {"AttributeError", "ValueError"} /\ df = arg)

C9_Witness ==
    /\ CleanRaised
    /\ \E i \in 1..Len(arg.rows) :
          TokenCount(PackedOf(arg.rows[i])) < TokenCount(PackedOf(ArgRow(0)))

C9_WitnessMore ==
    /\ CleanRaised
    /\ \E i \in 1..Len(arg.rows) :
          TokenCount(PackedOf(arg.rows[i])) > TokenCount(PackedOf(ArgRow(0)))

\* two joined rows equal in the other columns whose category values differ, and
\* only where one has 1 and the other 2
DifferOnlyOneTwo(r1, r2) ==
    /\ OthersOf(r1) = OthersOf(r2)
    /\ TokenCount(PackedOf(r1)) = TokenCount(PackedOf(r2))
    /\ \A k \in 1..TokenCount(PackedOf(r1)) :
          \/ Suffix(PackedOf(r1), k) = Suffix(PackedOf(r2), k)
          \/ {Suffix(PackedOf(r1), k), Suffix(PackedOf(r2), k)} = {1, 2}
    /\ \E k \in 1..TokenCount(PackedOf(r1)) :
          Suffix(PackedOf(r1), k) # Suffix(PackedOf(r2), k)

\* C10: duplicates are dropped after the 2-to-1 remap: of two joined rows that
\* differ only by 1 against 2 in category values, the later one is not in the
\* cleaned table and exactly one row with their cleaned values is.
C10_DedupAfterRemap ==
    CleanReturned =>
        \A i, j \in 1..Len(arg.rows) :
            (i < j /\ DifferOnlyOneTwo(arg.rows[i], arg.rows[j])) =>
                /\ arg.rows[j].idx \notin OutIdx
                /\ Cardinality({m \in 1..Len(arg.rows) :
                        /\ arg.rows[m].idx \in OutIdx
                        /\ SameCleaned(arg.rows[m], arg.rows[i])}) = 1

C10_Witness ==
    /\ CleanReturned
    /\ \E i, j \in 1..Len(arg.rows) : i < j /\ DifferOnlyOneTwo(arg.rows[i], arg.rows[j])
    /\ Len(df.rows) < Cardinality({arg.rows[i].cells : i \in 1..Len(arg.rows)})

====
